---- MODULE Spec2Model ----
(***************************************************************************)
(* Trackly (src/script.js): the in-memory collection `apps`, the           *)
(* preferences `prefs`, the two localStorage entries, the form's hidden    *)
(* edit id, the list controls and what the render functions last wrote.    *)
(*                                                                         *)
(* A JavaScript string is a sequence of one-character strings, so that     *)
(* trim, toLowerCase, includes and localeCompare are computed.  The text   *)
(* held by a localStorage entry is a sequence of JSON tokens, so that      *)
(* JSON.stringify and JSON.parse are computed.                             *)
(***************************************************************************)
EXTENDS Integers, Sequences, FiniteSets, TLC

VARIABLES apps, prefs, store, editId, view, dom, now, pc, last

vars == <<apps, prefs, store, editId, view, dom, now, pc, last>>

(***************************************************************************)
(* Bounds of the model.                                                    *)
(***************************************************************************)
\* create is offered while the collection holds fewer records than this
MaxApps == 2
\* Date.now() ranges over T0 .. T0 + MaxClock
MaxClock == 1
\* the value of Date.now() when the model starts
T0 == 1000000000

\* 1000 * 60 * 60 * 24, the day length seedDemoData subtracts
DayMs == 86400000

(***************************************************************************)
(* Strings.                                                                *)
(***************************************************************************)
UPPER == <<"A", "B", "C", "D", "E", "F", "G", "H", "I", "J", "K", "L", "M", "N", "O", "P", "Q", "R", "S", "T", "U", "V", "W", "X", "Y", "Z">>
LOWER == <<"a", "b", "c", "d", "e", "f", "g", "h", "i", "j", "k", "l", "m", "n", "o", "p", "q", "r", "s", "t", "u", "v", "w", "x", "y", "z">>
DIGITS == <<"0", "1", "2", "3", "4", "5", "6", "7", "8", "9">>

EMPTY == << >>

APPLIED == <<"a", "p", "p", "l", "i", "e", "d">>
INTERVIEW == <<"i", "n", "t", "e", "r", "v", "i", "e", "w">>
OFFER == <<"o", "f", "f", "e", "r">>
REJECTED == <<"r", "e", "j", "e", "c", "t", "e", "d">>
GHOSTED == <<"g", "h", "o", "s", "t", "e", "d">>
ALL == <<"a", "l", "l">>

CANVA == <<"C", "a", "n", "v", "a">>
CANVA_ROLE == <<"J", "u", "n", "i", "o", "r", " ", "F", "r", "o", "n", "t", "e", "n", "d", " ", "D", "e", "v", "e", "l", "o", "p", "e", "r">>
CANVA_NOTES == <<"P", "r", "e", "p", "a", "r", "e", " ", "U", "I", " ", "a", "c", "c", "e", "s", "s", "i", "b", "i", "l", "i", "t", "y", " ", "e", "x", "a", "m", "p", "l", "e", "s", ".">>
ATLASSIAN == <<"A", "t", "l", "a", "s", "s", "i", "a", "n">>
ATLASSIAN_ROLE == <<"S", "o", "f", "t", "w", "a", "r", "e", " ", "E", "n", "g", "i", "n", "e", "e", "r", " ", "I", "n", "t", "e", "r", "n", "/", "G", "r", "a", "d">>
ATLASSIAN_NOTES == <<"F", "o", "l", "l", "o", "w", " ", "u", "p", " ", "n", "e", "x", "t", " ", "w", "e", "e", "k", ".">>
SHOPIFY == <<"S", "h", "o", "p", "i", "f", "y">>
SHOPIFY_ROLE == <<"F", "r", "o", "n", "t", "e", "n", "d", " ", "E", "n", "g", "i", "n", "e", "e", "r", " ", "(", "J", "u", "n", "i", "o", "r", ")">>
SHOPIFY_NOTES == <<"N", "e", "g", "o", "t", "i", "a", "t", "e", " ", "s", "t", "a", "r", "t", " ", "d", "a", "t", "e", " ", "a", "n", "d", " ", "s", "a", "l", "a", "r", "y", " ", "r", "a", "n", "g", "e", ".">>
EXAMPLE_LINK == <<"h", "t", "t", "p", "s", ":", "/", "/", "e", "x", "a", "m", "p", "l", "e", ".", "c", "o", "m">>

\* position of c in the sequence s, 0 when absent
IndexOf(s, c) ==
  IF \E i \in 1..Len(s) : s[i] = c
    THEN CHOOSE i \in 1..Len(s) : s[i] = c /\ \A j \in 1..(i - 1) : s[j] # c
    ELSE 0

\* String.prototype.toLowerCase, one character
ToLowerChar(c) == IF IndexOf(UPPER, c) > 0 THEN LOWER[IndexOf(UPPER, c)] ELSE c

toLowerCase(s) == [i \in 1..Len(s) |-> ToLowerChar(s[i])]

IsSpace(c) == c = " "

\* String.prototype.trim
Trim(s) ==
  IF \A i \in 1..Len(s) : IsSpace(s[i])
    THEN EMPTY
    ELSE LET first == CHOOSE i \in 1..Len(s) :
                        ~IsSpace(s[i]) /\ \A j \in 1..(i - 1) : IsSpace(s[j])
             lst   == CHOOSE i \in 1..Len(s) :
                        ~IsSpace(s[i]) /\ \A j \in (i + 1)..Len(s) : IsSpace(s[j])
         IN  SubSeq(s, first, lst)

\* safeText(str): (str ?? "").toString().trim(); every value handed to it
\* here is a string
safeText(str) == Trim(str)

\* String.prototype.includes
includes(hay, q) ==
  \E i \in 0..(Len(hay) - Len(q)) : SubSeq(hay, i + 1, i + Len(q)) = q

\* decimal digits of a natural number, as template-literal interpolation
\* `${n}` writes them
RECURSIVE ToDecimal(_)
ToDecimal(n) ==
  IF n < 10 THEN <<DIGITS[n + 1]>>
            ELSE ToDecimal(n \div 10) \o <<DIGITS[(n % 10) + 1]>>

(***************************************************************************)
(* new URL(link), without a base: it throws unless the text starts with a  *)
(* scheme, and for a special scheme other than file unless a host follows. *)
(* Host syntax beyond emptiness is not examined.                           *)
(***************************************************************************)
IsAlpha(c) == IndexOf(LOWER, ToLowerChar(c)) > 0

IsSchemeChar(c) == IsAlpha(c) \/ IndexOf(DIGITS, c) > 0 \/ c \in {"+", "-", "."}

SpecialSchemes ==
  { <<"h", "t", "t", "p">>, <<"h", "t", "t", "p", "s">>, <<"f", "t", "p">>,
    <<"w", "s">>, <<"w", "s", "s">> }

\* the text after leading slashes and backslashes
RECURSIVE StripSlashes(_)
StripSlashes(s) ==
  IF s # EMPTY /\ s[1] \in {"/", "\\"} THEN StripSlashes(Tail(s)) ELSE s

URLParses(link) ==
  LET colon == IndexOf(link, ":")
  IN  /\ colon >= 2
      /\ IsAlpha(link[1])
      /\ \A i \in 2..(colon - 1) : IsSchemeChar(link[i])
      /\ LET scheme == toLowerCase(SubSeq(link, 1, colon - 1))
             rest   == StripSlashes(SubSeq(link, colon + 1, Len(link)))
         IN  scheme \in SpecialSchemes =>
               (rest # EMPTY /\ rest[1] \notin {"?", "#"})

(***************************************************************************)
(* String.prototype.localeCompare under the default collation: the first   *)
(* difference of the letters, case set aside, decides; between texts that  *)
(* differ only in case, the first such difference decides, lower case      *)
(* first.  Space and punctuation sort before digits, digits before letters.*)
(***************************************************************************)
CollationOrder ==
  <<" ", "_", "-", ",", ":", ".", "(", ")", "/">> \o DIGITS \o LOWER

Rank(c) == IndexOf(CollationOrder, ToLowerChar(c))

\* -1, 0 or 1 by the first position where the key sequences ka and kb
\* differ, a proper prefix sorting first
RECURSIVE CompareKeys(_, _)
CompareKeys(ka, kb) ==
  IF ka = << >> /\ kb = << >> THEN 0
  ELSE IF ka = << >> THEN -1
  ELSE IF kb = << >> THEN 1
  ELSE IF ka[1] < kb[1] THEN -1
  ELSE IF ka[1] > kb[1] THEN 1
  ELSE CompareKeys(Tail(ka), Tail(kb))

CaseKey(c) == IF IndexOf(UPPER, c) > 0 THEN 1 ELSE 0

localeCompare(a, b) ==
  LET primary == CompareKeys([i \in 1..Len(a) |-> Rank(a[i])],
                             [i \in 1..Len(b) |-> Rank(b[i])])
  IN  IF primary # 0
        THEN primary
        ELSE CompareKeys([i \in 1..Len(a) |-> CaseKey(a[i])],
                         [i \in 1..Len(b) |-> CaseKey(b[i])])

(***************************************************************************)
(* JSON text.  A token is a punctuation mark, an object key, a string, a   *)
(* number, a literal, or a run of characters that is no JSON (t = "bad").  *)
(***************************************************************************)
Tok(t, k, s, n) == [t |-> t, k |-> k, s |-> s, n |-> n]

Punct(c) == Tok(c, "", EMPTY, 0)
KeyTok(k) == Tok("key", k, EMPTY, 0)
StrTok(s) == Tok("str", "", s, 0)
NumTok(n) == Tok("num", "", EMPTY, n)
LitTok(l) == Tok(l, "", EMPTY, 0)
BadTok    == Tok("bad", "", EMPTY, 0)

IsScalarTok(tk) == tk.t \in {"str", "num", "true", "false", "null"}

\* the keys of an application object, in the order upsertApp and
\* seedDemoData create them
AppKeys ==
  <<"id", "createdAt", "company", "role", "status", "date", "link", "notes">>

\* JavaScript values held by `apps`: an array of application objects, or
\* whatever else JSON.parse returned (its text is kept in raw)
JArr(items) == [t |-> "array", items |-> items, raw |-> << >>]
JOther(t, raw) == [t |-> t, items |-> << >>, raw |-> raw]

IsArray(v) == v.t = "array"

FieldTok(a, k) == IF k = "createdAt" THEN NumTok(a[k]) ELSE StrTok(a[k])

RECURSIVE MemberToks(_, _)
MemberToks(a, keys) ==
  IF keys = << >> THEN << >>
  ELSE <<KeyTok(keys[1]), Punct(":"), FieldTok(a, keys[1])>>
       \o (IF Len(keys) > 1 THEN <<Punct(",")>> ELSE << >>)
       \o MemberToks(a, Tail(keys))

ObjectToks(a) == <<Punct("{")>> \o MemberToks(a, AppKeys) \o <<Punct("}")>>

RECURSIVE ElementToks(_)
ElementToks(items) ==
  IF items = << >> THEN << >>
  ELSE ObjectToks(items[1])
       \o (IF Len(items) > 1 THEN <<Punct(",")>> ELSE << >>)
       \o ElementToks(Tail(items))

\* JSON.stringify(apps)
JSONstringify(v) ==
  IF IsArray(v) THEN <<Punct("[")>> \o ElementToks(v.items) \o <<Punct("]")>>
                ELSE v.raw

\* `prefs` is an object: its members in property order, each a key and the
\* JSON text of its value
Member(k, v) == [k |-> k, v |-> v]

RECURSIVE PrefsMemberToks(_)
PrefsMemberToks(p) ==
  IF p = << >> THEN << >>
  ELSE <<KeyTok(p[1].k), Punct(":")>> \o p[1].v
       \o (IF Len(p) > 1 THEN <<Punct(",")>> ELSE << >>)
       \o PrefsMemberToks(Tail(p))

\* JSON.stringify(prefs)
JSONstringifyPrefs(p) == <<Punct("{")>> \o PrefsMemberToks(p) \o <<Punct("}")>>

Failed == [ok |-> FALSE, v |-> JOther("undefined", << >>)]
Parsed(v) == [ok |-> TRUE, v |-> v]

\* the members of a flat object text "{" key ":" scalar ("," ...)* "}"
ObjectWellFormed(toks) ==
  LET inner == SubSeq(toks, 2, Len(toks) - 1)
  IN  /\ Len(toks) >= 2
      /\ toks[1].t = "{"
      /\ toks[Len(toks)].t = "}"
      /\ \/ inner = << >>
         \/ /\ Len(inner) % 4 = 3
            /\ \A i \in 1..Len(inner) :
                 CASE i % 4 = 1 -> inner[i].t = "key"
                   [] i % 4 = 2 -> inner[i].t = ":"
                   [] i % 4 = 3 -> IsScalarTok(inner[i])
                   [] OTHER     -> inner[i].t = ","

ObjectKeys(toks) ==
  LET inner == SubSeq(toks, 2, Len(toks) - 1)
  IN  [i \in 1..((Len(inner) + 1) \div 4) |-> inner[4 * i - 3].k]

ObjectVals(toks) ==
  LET inner == SubSeq(toks, 2, Len(toks) - 1)
  IN  [i \in 1..((Len(inner) + 1) \div 4) |-> inner[4 * i - 1]]

\* the application object a well-formed object text with the keys AppKeys
\* denotes
AppOfVals(vals) ==
  LET val(i) == IF vals[i].t = "num" THEN vals[i].n ELSE vals[i].s
  IN  [id |-> val(1), createdAt |-> val(2), company |-> val(3),
       role |-> val(4), status |-> val(5), date |-> val(6),
       link |-> val(7), notes |-> val(8)]

AppOf(toks) == AppOfVals(ObjectVals(toks))

\* the elements of an array text, after its "[": objects separated by ","
RECURSIVE ParseElements(_)

\* the element a, followed by the elements more
Prepend(a, more) == [ok |-> more.ok, items |-> <<a>> \o more.items]

\* the object text head, then what follows it up to the "]"
ParseObjectThen(head, rest) ==
  IF ~ObjectWellFormed(head) \/ ObjectKeys(head) # AppKeys
    THEN [ok |-> FALSE, items |-> << >>]
  ELSE IF rest = << >>
    THEN [ok |-> TRUE, items |-> <<AppOf(head)>>]
  ELSE IF rest[1].t # "," \/ Len(rest) = 1
    THEN [ok |-> FALSE, items |-> << >>]
  ELSE Prepend(AppOf(head), ParseElements(Tail(rest)))

\* toks split after its first "}", which is at position close
SplitAtClose(toks, close) ==
  IF close = 0
    THEN [ok |-> FALSE, items |-> << >>]
    ELSE ParseObjectThen(SubSeq(toks, 1, close),
                         SubSeq(toks, close + 1, Len(toks)))

ParseElements(toks) ==
  SplitAtClose(toks, IndexOf([i \in 1..Len(toks) |-> toks[i].t], "}"))

\* the array value of parsed elements, when every one of them parsed
ArrayOf(els) == IF els.ok THEN Parsed(JArr(els.items)) ELSE Failed

\* JSON.parse(text), for texts that are a scalar, a flat object, an array
\* of application objects, or no JSON at all
JSONparse(text) ==
  IF text = << >> THEN Failed
  ELSE IF Len(text) = 1
    THEN IF IsScalarTok(text[1])
           THEN Parsed(JOther(CASE text[1].t = "str" -> "string"
                                [] text[1].t = "num" -> "number"
                                [] text[1].t = "null" -> "null"
                                [] OTHER -> "boolean", text))
           ELSE Failed
  ELSE IF text[1].t = "[" /\ text[Len(text)].t = "]"
    THEN IF Len(text) = 2 THEN Parsed(JArr(<< >>))
         ELSE ArrayOf(ParseElements(SubSeq(text, 2, Len(text) - 1)))
  ELSE IF ObjectWellFormed(text) THEN Parsed(JOther("object", text))
  ELSE Failed

(***************************************************************************)
(* Load / save (section 5 of script.js).                                   *)
(***************************************************************************)
\* a localStorage entry: getItem returns null when it is absent
Absent == [present |-> FALSE, text |-> << >>]
Entry(text) == [present |-> TRUE, text |-> text]

\* truthiness of what getItem returned: null and "" are falsy
Truthy(e) == e.present /\ e.text # << >>

DefaultPrefs == <<Member("compact", <<LitTok("false")>>)>>

\* the value of the member k of the object p, undefined when it has none
Get(p, k) ==
  IF \E i \in 1..Len(p) : p[i].k = k
    THEN p[CHOOSE i \in 1..Len(p) : p[i].k = k].v
    ELSE << >>

\* p[k] = v: a member the object has keeps its place, a new one goes last
Assign(p, k, v) ==
  IF \E i \in 1..Len(p) : p[i].k = k
    THEN [i \in 1..Len(p) |-> IF p[i].k = k THEN Member(k, v) ELSE p[i]]
    ELSE Append(p, Member(k, v))

\* ToBoolean of a value given by its JSON text: false, null, 0 and "" are
\* falsy, as is undefined (no text)
TruthyValue(v) ==
  IF v = << >> THEN FALSE
  ELSE IF Len(v) > 1 THEN TRUE
  ELSE CASE v[1].t = "false" -> FALSE
         [] v[1].t = "null"  -> FALSE
         [] v[1].t = "num"   -> v[1].n # 0
         [] v[1].t = "str"   -> v[1].s # << >>
         [] OTHER            -> TRUE

\* the key of the array index n
RECURSIVE IndexKey(_)
IndexKey(n) ==
  IF n < 10 THEN DIGITS[n + 1]
            ELSE IndexKey(n \div 10) \o DIGITS[(n % 10) + 1]

\* the own enumerable properties the spread of v copies: the members of an
\* object, the characters of a string and the elements of an array under
\* their indices, nothing for a number, a boolean or null
OwnMembers(v) ==
  CASE v.t = "object" ->
         [i \in 1..Len(ObjectKeys(v.raw)) |->
            Member(ObjectKeys(v.raw)[i], <<ObjectVals(v.raw)[i]>>)]
    [] v.t = "string" ->
         [i \in 1..Len(v.raw[1].s) |->
            Member(IndexKey(i - 1), <<StrTok(<<v.raw[1].s[i]>>)>>)]
    [] v.t = "array" ->
         [i \in 1..Len(v.items) |->
            Member(IndexKey(i - 1), ObjectToks(v.items[i]))]
    [] OTHER -> << >>

\* the members ms assigned to p one after the other
RECURSIVE AssignAll(_, _)
AssignAll(p, ms) ==
  IF ms = << >> THEN p
  ELSE AssignAll(Assign(p, ms[1].k, ms[1].v), Tail(ms))

\* { ...prefs, ...JSON.parse(rawPrefs) }: the members of the parsed value
\* replace or follow those of p; index keys come first in property order
\* (the keys of a stored object are taken not to be array indices)
MergePrefs(p, v) ==
  IF v.t \in {"string", "array"} THEN OwnMembers(v) \o p
                                  ELSE AssignAll(p, OwnMembers(v))

\* loadState, up to applyPrefsToUI: the values of apps and prefs it leaves,
\* prefs being DefaultPrefs when it starts; pa and pp are what JSON.parse
\* makes of the two entries
Loaded(st, pa, pp) ==
  LET caught == [apps  |-> JArr(<< >>),
                 prefs |-> <<Member("compact", <<LitTok("false")>>)>>]
  IN  IF Truthy(st.apps) /\ ~pa.ok THEN caught
      ELSE IF Truthy(st.prefs) /\ ~pp.ok THEN caught
      ELSE [apps  |-> IF Truthy(st.apps) THEN pa.v ELSE JArr(<< >>),
            prefs |-> IF Truthy(st.prefs) THEN MergePrefs(DefaultPrefs, pp.v)
                                          ELSE DefaultPrefs]

loadState(st) ==
  Loaded(st, JSONparse(st.apps.text), JSONparse(st.prefs.text))

\* saveApps with the setItem call left out
saveApps_Skipped(st, a) == st

\* saveApps: the storage after localStorage.setItem(STORAGE_KEY_APPS, ...)
saveApps(st, a) == [st EXCEPT !.apps = Entry(JSONstringify(a))]

\* savePrefs
savePrefs(st, p) == [st EXCEPT !.prefs = Entry(JSONstringifyPrefs(p))]

(***************************************************************************)
(* Rendering (section 7).  The list is kept as the sequence of application *)
(* objects whose cards were written, the results line by its numbers.      *)
(***************************************************************************)
\* the comparator with the "oldest" branch written as the "newest" one
Comparator_OldestAsNewest(sortMode, a, b) ==
  CASE sortMode = "company" -> localeCompare(a.company, b.company)
    [] sortMode = "status"  -> localeCompare(a.status, b.status)
    [] OTHER                -> b.createdAt - a.createdAt

\* the comparator handed to result.sort
Comparator(sortMode, a, b) ==
  CASE sortMode = "company" -> localeCompare(a.company, b.company)
    [] sortMode = "status"  -> localeCompare(a.status, b.status)
    [] sortMode = "oldest"  -> a.createdAt - b.createdAt
    [] OTHER                -> b.createdAt - a.createdAt

\* Array.prototype.sort is stable: x goes after every element that does
\* not sort after it
RECURSIVE InsertSorted(_, _, _)
InsertSorted(sortMode, sorted, x) ==
  IF sorted = << >> THEN <<x>>
  ELSE IF Comparator(sortMode, sorted[1], x) <= 0
    THEN <<sorted[1]>> \o InsertSorted(sortMode, Tail(sorted), x)
    ELSE <<x>> \o sorted

RECURSIVE SortApps(_, _)
SortApps(sortMode, items) ==
  IF items = << >> THEN << >>
  ELSE InsertSorted(sortMode,
                    SortApps(sortMode, SubSeq(items, 1, Len(items) - 1)),
                    items[Len(items)])

\* the haystack without toLowerCase()
Haystack_CaseSensitive(a) == a.company \o <<" ">> \o a.role

\* the haystack of the search: `${a.company} ${a.role}`.toLowerCase()
Haystack(a) == toLowerCase(a.company \o <<" ">> \o a.role)

MatchesQuery(a, q) == includes(Haystack(a), q)

\* if (q) result = result.filter(...)
FilterByQuery(items, q) ==
  IF q # EMPTY THEN SelectSeq(items, LAMBDA a : MatchesQuery(a, q))
               ELSE items

\* if (status !== "all") result = result.filter(...)
FilterByStatus(items, status) ==
  IF status # ALL THEN SelectSeq(items, LAMBDA a : a.status = status)
                  ELSE items

getFilteredApps(items, v) ==
  SortApps(v.sort,
           FilterByStatus(FilterByQuery(items, toLowerCase(safeText(v.q))),
                          v.filter))

CountStatus(items, status) ==
  Cardinality({i \in 1..Len(items) : items[i].status = status})

\* renderStats with the total taken as the sum of the three counters
renderStats_SumTotal(items) ==
  [total     |-> CountStatus(items, APPLIED) + CountStatus(items, INTERVIEW)
                   + CountStatus(items, OFFER),
   applied   |-> CountStatus(items, APPLIED),
   interview |-> CountStatus(items, INTERVIEW),
   offer     |-> CountStatus(items, OFFER)]

\* what renderStats writes to the four counters
renderStats(items) ==
  [total     |-> Len(items),
   applied   |-> CountStatus(items, APPLIED),
   interview |-> CountStatus(items, INTERVIEW),
   offer     |-> CountStatus(items, OFFER)]

\* what renderList writes when getFilteredApps() returned shown: the
\* results line, the empty state, the cards
ListOf(items, shown) ==
  [meta      |-> IF Len(shown) = Len(items)
                   THEN [form |-> "items", shown |-> Len(shown),
                         total |-> Len(items)]
                   ELSE [form |-> "shown of", shown |-> Len(shown),
                         total |-> Len(items)],
   empty     |-> Len(items) = 0,
   noMatches |-> Len(items) > 0 /\ Len(shown) = 0,
   list      |-> shown]

renderList(items, v) == ListOf(items, getFilteredApps(items, v))

\* the document as index.html ships it, before any render
BlankDom ==
  [stats |-> [total |-> 0, applied |-> 0, interview |-> 0, offer |-> 0],
   meta |-> [form |-> "items", shown |-> 0, total |-> 0],
   empty |-> TRUE, noMatches |-> FALSE, list |-> << >>,
   compact |-> FALSE]

\* the document d with the counters c and the list l written to it
Painted(d, c, l) ==
  [d EXCEPT !.stats = c, !.meta = l.meta, !.empty = l.empty,
            !.noMatches = l.noMatches, !.list = l.list]

\* the document after renderStats() and renderList()
Rendered(d, items, v) == Painted(d, renderStats(items), renderList(items, v))

\* the listeners of the list controls without their renderList() call
ListRendered_Skipped(d, items, v) == d

\* the document after renderList() alone
ListRendered(d, items, v) == Painted(d, d.stats, renderList(items, v))

\* applyPrefsToUI: data-compact is "true" when prefs.compact is truthy
applyPrefsToUI(d, p) ==
  [d EXCEPT !.compact = TruthyValue(Get(p, "compact"))]

(***************************************************************************)
(* Form validation (section 9).                                            *)
(***************************************************************************)
\* validateForm without the check of the link
FieldErrors_NoLinkCheck(data) ==
  {f \in {"company", "role", "status"} :
     CASE f = "company" -> Len(data.company) < 2
       [] f = "role"    -> Len(data.role) < 2
       [] OTHER         -> data.status = EMPTY}

\* the fields validateForm reports an error for
FieldErrors(data) ==
  {f \in {"company", "role", "status", "link"} :
     CASE f = "company" -> Len(data.company) < 2
       [] f = "role"    -> Len(data.role) < 2
       [] f = "status"  -> data.status = EMPTY
       [] OTHER         -> data.link # EMPTY /\ ~URLParses(data.link)}

validateForm(data) == FieldErrors(data) = {}

\* the payload the submit handler reads from the form controls
FormData(f) ==
  [company |-> safeText(f.company), role |-> safeText(f.role),
   status |-> f.status, date |-> f.date,
   link |-> safeText(f.link), notes |-> safeText(f.notes)]

(***************************************************************************)
(* Inputs.                                                                 *)
(***************************************************************************)
\* what Math.random().toString(16).slice(2) may return
Rands == { <<"8">>, <<"c">> }

\* what the three Math.random() calls of one seedDemoData may return:
\* three different values, or the same value twice or three times
SeedDraws ==
  { << <<"8">>, <<"c">>, <<"4">> >>, << <<"8">>, <<"8">>, <<"c">> >>,
    << <<"4">>, <<"4">>, <<"4">> >> }

ACME_RAW == <<" ", "A", "c", "m", "e", " ">>
ACME_CORP == <<"A", "C", "M", "E", " ", "C", "o", "r", "p">>
DEV == <<"D", "e", "v">>
QA == <<"Q", "A">>
A_DATE == <<"2", "0", "2", "4", "-", "0", "1", "-", "0", "5">>
NOT_A_URL == <<"n", "o", "t", "-", "a", "-", "u", "r", "l">>
HI_RAW == <<" ", "h", "i", " ">>
INITECH == <<"I", "n", "i", "t", "e", "c", "h">>
OPS == <<"O", "p", "s">>
LEGACY_ID == <<"9", "_", "a">>

Form(company, role, status, date, link, notes) ==
  [company |-> company, role |-> role, status |-> status, date |-> date,
   link |-> link, notes |-> notes]

\* the contents of the form controls when the form is submitted
ValidForms ==
  { Form(ACME_RAW, DEV, REJECTED, A_DATE, EXAMPLE_LINK, HI_RAW) }

InvalidForms ==
  { Form(<<" ", "A", " ">>, DEV, APPLIED, EMPTY, EMPTY, EMPTY),
    Form(ACME_CORP, <<" ">>, OFFER, EMPTY, EMPTY, EMPTY),
    Form(ACME_CORP, QA, EMPTY, EMPTY, EMPTY, EMPTY),
    Form(ACME_RAW, DEV, APPLIED, EMPTY, NOT_A_URL, EMPTY) }

FormInputs == ValidForms \cup InvalidForms

\* what may be typed in the search box, and chosen in the two selects
Queries == { EMPTY, <<" ", "E", " ", "d">> }
Filters == { ALL, OFFER }
SortModes == { "newest", "oldest", "company", "status" }

DefaultView == [q |-> EMPTY, filter |-> ALL, sort |-> "newest"]

\* an application object written by an earlier session, with a status this
\* version does not know
LegacyApp ==
  [id |-> LEGACY_ID, createdAt |-> 900000000, company |-> INITECH,
   role |-> OPS, status |-> GHOSTED, date |-> EMPTY, link |-> EMPTY,
   notes |-> EMPTY]

InvalidText == <<Punct("{"), BadTok>>

DARK == <<"d", "a", "r", "k">>

\* {"theme":"dark","compact":1}: a preferences object an earlier version
\* wrote
ValidPrefsText ==
  <<Punct("{"), KeyTok("theme"), Punct(":"), StrTok(DARK), Punct(","),
    KeyTok("compact"), Punct(":"), NumTok(1), Punct("}")>>

\* what the two localStorage entries may hold when the page is first opened
InitialStores ==
  { [apps |-> Absent, prefs |-> Entry(InvalidText)],
    [apps |-> Entry(<< >>), prefs |-> Entry(ValidPrefsText)],
    [apps |-> Entry(InvalidText), prefs |-> Entry(ValidPrefsText)],
    [apps |-> Entry(JSONstringify(JArr(<<LegacyApp>>))), prefs |-> Entry(ValidPrefsText)],
    [apps |-> Entry(JSONstringify(JArr(<<LegacyApp>>))), prefs |-> Entry(InvalidText)],
    [apps |-> Entry(<<NumTok(5)>>), prefs |-> Absent],
    [apps |-> Entry(<<LitTok("null")>>), prefs |-> Entry(ValidPrefsText)],
    [apps |-> Entry(<<StrTok(DEV)>>), prefs |-> Absent],
    [apps |-> Entry(<<Punct("{"), Punct("}")>>), prefs |-> Absent] }

(***************************************************************************)
(* CRUD (section 10), seed and clear (15), init (16).                      *)
(***************************************************************************)
uid(t, r) == ToDecimal(t) \o <<"_">> \o r

\* the update with the spread written { ...data, ...a }: the record's own
\* fields win
MapUpdate_SpreadReversed(items, editingId, data) == items

\* apps.map((a) => (a.id === editingId ? { ...a, ...data } : a))
MapUpdate(items, editingId, data) ==
  [i \in 1..Len(items) |->
     IF items[i].id = editingId
       THEN [items[i] EXCEPT !.company = data.company, !.role = data.role,
                             !.status = data.status, !.date = data.date,
                             !.link = data.link, !.notes = data.notes]
       ELSE items[i]]

\* apps.unshift({ id: uid(), createdAt: Date.now(), ...data })
Unshift(items, id, createdAt, data) ==
  <<[id |-> id, createdAt |-> createdAt, company |-> data.company,
     role |-> data.role, status |-> data.status, date |-> data.date,
     link |-> data.link, notes |-> data.notes]>> \o items

\* the delete with the test written a.id === id
FilterOut_Inverted(items, id) == SelectSeq(items, LAMBDA a : a.id = id)

\* apps.filter((a) => a.id !== id)
FilterOut(items, id) == SelectSeq(items, LAMBDA a : a.id # id)

\* apps.find((a) => a.id === id) finds something
Found(items, id) == \E i \in 1..Len(items) : items[i].id = id

\* the array seedDemoData assigns: t is what its own Date.now() returned,
\* t1, t2, t3 what the Date.now() of the three uid() calls returned
SeedApps(t, t1, t2, t3, r1, r2, r3) ==
  << [id |-> uid(t1, r1), createdAt |-> t - DayMs * 2, company |-> CANVA,
      role |-> CANVA_ROLE, status |-> INTERVIEW, date |-> EMPTY,
      link |-> EXAMPLE_LINK, notes |-> CANVA_NOTES],
     [id |-> uid(t2, r2), createdAt |-> t - DayMs * 5, company |-> ATLASSIAN,
      role |-> ATLASSIAN_ROLE, status |-> APPLIED, date |-> EMPTY,
      link |-> EMPTY, notes |-> ATLASSIAN_NOTES],
     [id |-> uid(t3, r3), createdAt |-> t - DayMs * 10, company |-> SHOPIFY,
      role |-> SHOPIFY_ROLE, status |-> OFFER, date |-> EMPTY,
      link |-> EXAMPLE_LINK, notes |-> SHOPIFY_NOTES] >>

\* the record of the last run of init, of the submit handler or of a
\* function that assigns the collection: which one, the id it was given,
\* whether a record of the collection had that id, and how it ended
Event(op, id, found, outcome) ==
  [op |-> op, id |-> id, found |-> found, outcome |-> outcome]

\* init(), loadState() having left l: renderStats() and renderList(); a
\* value of apps that is no array has no filter method, renderStats throws
\* and the listeners below are never attached
BootedWith(l) ==
  IF IsArray(l.apps)
    THEN [apps |-> l.apps, prefs |-> l.prefs,
          dom |-> Rendered(applyPrefsToUI(BlankDom, l.prefs), l.apps.items,
                           DefaultView),
          pc |-> "ready",
          last |-> Event("init", EMPTY, FALSE, "returned")]
    ELSE [apps |-> l.apps, prefs |-> l.prefs,
          dom |-> applyPrefsToUI(BlankDom, l.prefs),
          pc |-> "crashed",
          last |-> Event("init", EMPTY, FALSE, "threw")]

Booted(st) == BootedWith(loadState(st))

\* the state b that init() leaves when the storage holds st
InitOn(st, b) ==
  /\ now = T0
  /\ editId = EMPTY
  /\ view = DefaultView
  /\ store = st
  /\ apps = b.apps
  /\ prefs = b.prefs
  /\ dom = b.dom
  /\ pc = b.pc
  /\ last = b.last

Init == \E st \in InitialStores : InitOn(st, Booted(st))

\* module state and controls start afresh and init() leaves b
Reopened(b) ==
  /\ apps' = b.apps
  /\ prefs' = b.prefs
  /\ dom' = b.dom
  /\ pc' = b.pc
  /\ last' = b.last
  /\ editId' = EMPTY
  /\ view' = DefaultView
  /\ UNCHANGED <<store, now>>

\* the page is opened again: init() runs on what the storage holds
Reload == Reopened(Booted(store))

\* the clock advances between two events
Tick ==
  /\ now < T0 + MaxClock
  /\ now' = now + 1
  /\ UNCHANGED <<apps, prefs, store, editId, view, dom, pc, last>>

\* the tail every mutating function shares: saveApps(), renderStats(),
\* renderList()
SaveAndRender(items, d) ==
  /\ apps' = JArr(items)
  /\ store' = saveApps(store, JArr(items))
  /\ dom' = Rendered(d, items, view)

\* submit handler, validateForm(data) false: the handler returns (the
\* error paragraphs it shows are not part of the state kept here)
SubmitInvalid(f) ==
  /\ pc = "ready"
  /\ ~validateForm(FormData(f))
  /\ last' = Event("submit", editId, Found(apps.items, editId), "invalid")
  /\ UNCHANGED <<apps, prefs, store, editId, view, dom, now, pc>>

\* submit handler, valid data, upsertApp with an edit id: update
SubmitUpdate(f) ==
  /\ pc = "ready"
  /\ editId # EMPTY
  /\ validateForm(FormData(f))
  /\ SaveAndRender(MapUpdate(apps.items, editId, FormData(f)), dom)
  /\ editId' = EMPTY
  /\ last' = Event("update", editId, Found(apps.items, editId), "returned")
  /\ UNCHANGED <<prefs, view, now, pc>>

\* submit handler, valid data, upsertApp without an edit id: create.
\* uid() reads the clock and Math.random(), createdAt reads the clock
\* again, possibly one tick later
SubmitCreate(f, r, t) ==
  /\ pc = "ready"
  /\ editId = EMPTY
  /\ Len(apps.items) < MaxApps
  /\ t \in {now, now + 1}
  /\ t <= T0 + MaxClock
  /\ validateForm(FormData(f))
  /\ SaveAndRender(Unshift(apps.items, uid(now, r), t, FormData(f)),
                   dom)
  /\ editId' = EMPTY
  /\ now' = t
  /\ last' = Event("create", uid(now, r), Found(apps.items, uid(now, r)),
                   "returned")
  /\ UNCHANGED <<prefs, view, pc>>

\* list click handler, Edit button of the i-th card
EditClick(i) ==
  /\ pc = "ready"
  /\ i \in 1..Len(dom.list)
  /\ Found(apps.items, dom.list[i].id)
  /\ editId' = dom.list[i].id
  /\ UNCHANGED <<apps, prefs, store, view, dom, now, pc, last>>

\* list click handler, Delete button of the i-th card, confirmed
DeleteClick(i) ==
  /\ pc = "ready"
  /\ i \in 1..Len(dom.list)
  /\ Found(apps.items, dom.list[i].id)
  /\ SaveAndRender(FilterOut(apps.items, dom.list[i].id), dom)
  /\ last' = Event("delete", dom.list[i].id, TRUE, "returned")
  /\ UNCHANGED <<prefs, editId, view, now, pc>>

\* seedDemoData: its own clock reading is now; t1, t2, t3 are the clock
\* readings and r1, r2, r3 the draws of the three uid() calls
SeedAt(t1, t2, t3, r1, r2, r3) ==
  /\ pc = "ready"
  /\ now <= t1
  /\ t1 <= t2
  /\ t2 <= t3
  /\ t3 <= T0 + MaxClock
  /\ SaveAndRender(SeedApps(now, t1, t2, t3, r1, r2, r3), dom)
  /\ now' = t3
  /\ last' = Event("seed", EMPTY, FALSE, "returned")
  /\ UNCHANGED <<prefs, editId, view, pc>>

\* click listener of the seed button; r1, r2, r3 are what the three uid()
\* calls draw, the clock advancing or not between its four readings
SeedClick(r1, r2, r3) ==
  \E t1, t2, t3 \in T0..(T0 + MaxClock) : SeedAt(t1, t2, t3, r1, r2, r3)

\* clearAll, confirmed
ClearAllClick ==
  /\ pc = "ready"
  /\ SaveAndRender(<< >>, dom)
  /\ editId' = EMPTY
  /\ last' = Event("clear", EMPTY, FALSE, "returned")
  /\ UNCHANGED <<prefs, view, now, pc>>

\* reset button: resetFormToAddMode
ResetClick ==
  /\ pc = "ready"
  /\ editId' = EMPTY
  /\ UNCHANGED <<apps, prefs, store, view, dom, now, pc, last>>

\* input/change listener of the search box: renderList()
SearchInput(q) ==
  /\ pc = "ready"
  /\ view' = [view EXCEPT !.q = q]
  /\ dom' = ListRendered(dom, apps.items, view')
  /\ UNCHANGED <<apps, prefs, store, editId, now, pc, last>>

\* input/change listener of the status filter: renderList()
FilterChange(s) ==
  /\ pc = "ready"
  /\ view' = [view EXCEPT !.filter = s]
  /\ dom' = ListRendered(dom, apps.items, view')
  /\ UNCHANGED <<apps, prefs, store, editId, now, pc, last>>

\* input/change listener of the sort select: renderList()
SortChange(m) ==
  /\ pc = "ready"
  /\ view' = [view EXCEPT !.sort = m]
  /\ dom' = ListRendered(dom, apps.items, view')
  /\ UNCHANGED <<apps, prefs, store, editId, now, pc, last>>

\* click listener of the compact toggle: savePrefs(), applyPrefsToUI()
ToggleCompact ==
  /\ pc = "ready"
  /\ prefs' = Assign(prefs, "compact",
                     <<LitTok(IF TruthyValue(Get(prefs, "compact"))
                                THEN "false" ELSE "true")>>)
  /\ store' = savePrefs(store, prefs')
  /\ dom' = applyPrefsToUI(dom, prefs')
  /\ UNCHANGED <<apps, editId, view, now, pc, last>>

\* the clock, and the handlers of the form, the list and the clear button,
\* the create apart
FormAndList ==
  \/ Tick
  \/ \E f \in FormInputs : SubmitInvalid(f)
  \/ \E f \in FormInputs : SubmitUpdate(f)
  \/ \E i \in 1..(MaxApps + 3) : EditClick(i)
  \/ \E i \in 1..(MaxApps + 3) : DeleteClick(i)
  \/ ClearAllClick
  \/ ResetClick

\* these, the create, the seed, and the page being opened again
DataNext ==
  \/ Reload
  \/ FormAndList
  \/ \E d \in SeedDraws : SeedClick(d[1], d[2], d[3])
  \/ \E f \in FormInputs, r \in Rands, t \in T0..(T0 + MaxClock) :
       SubmitCreate(f, r, t)

\* one session of the page in which Math.random() returns the same digits
\* at every create, so that two creates within one millisecond issue the
\* same id, and the clock readings of one create or of one seed fall in
\* one millisecond
CrudNext ==
  \/ FormAndList
  \/ \E d \in SeedDraws : SeedAt(now, now, now, d[1], d[2], d[3])
  \/ \E f \in FormInputs : SubmitCreate(f, <<"8">>, now)

\* the handlers of the list controls
ViewNext ==
  \/ \E q \in Queries : SearchInput(q)
  \/ \E s \in Filters : FilterChange(s)
  \/ \E m \in SortModes : SortChange(m)

Next == DataNext

\* the collection, the form and the storage, the list controls and the
\* compact toggle left as the page loads them
Spec == Init /\ [][Next]_vars

\* the compact toggle, with the page being opened again and the handlers
\* that write the records entry: create, delete and clear
NextPrefs ==
  \/ Reload
  \/ ToggleCompact
  \/ \E f \in ValidForms, r \in Rands : SubmitCreate(f, r, now)
  \/ \E i \in 1..MaxApps : DeleteClick(i)
  \/ ClearAllClick

\* the preferences, from whatever the storage holds
SpecPrefs == Init /\ [][NextPrefs]_vars

\* an application object written by an earlier session is in the storage
LegacyStore ==
  [apps |-> Entry(JSONstringify(JArr(<<LegacyApp>>))),
   prefs |-> Entry(ValidPrefsText)]

\* the page opened on the collection an earlier session left
InitLegacy == InitOn(LegacyStore, Booted(LegacyStore))

\* one session of the page, from that collection
SpecCrud == InitLegacy /\ [][CrudNext]_vars

\* the list controls, with the handlers that assign the collection
NextView ==
  \/ ViewNext
  \/ \E f \in ValidForms : SubmitUpdate(f)
  \/ \E f \in ValidForms, r \in Rands : SubmitCreate(f, r, now)
  \/ \E i \in 1..(MaxApps + 3) : EditClick(i)
  \/ \E i \in 1..(MaxApps + 3) : DeleteClick(i)
  \/ SeedAt(now, now, now, <<"8">>, <<"c">>, <<"4">>)
  \/ ClearAllClick

SpecView == InitLegacy /\ [][NextView]_vars

(***************************************************************************)
(* Properties.                                                             *)
(***************************************************************************)
\* the functions that assign the collection
Mutating == {"create", "update", "delete", "seed", "clear"}

\* the submit handler run on the form contents f, whichever way it ends
SubmitHandler(f) ==
  \/ SubmitInvalid(f)
  \/ SubmitUpdate(f)
  \/ \E r \in Rands, t \in T0..(T0 + MaxClock) : SubmitCreate(f, r, t)

\* C1: whenever the last thing done to the collection is a create, an
\* update, a delete, a seed or a clear, the records entry of the storage
\* holds the serialization of the collection in memory.
WriteThrough ==
  (pc = "ready" /\ last.op \in Mutating) =>
    (store.apps.present /\ store.apps.text = JSONstringify(apps))

\* an update of one of three records has been saved
WriteThroughWitness ==
  /\ last.op = "update"
  /\ last.found
  /\ Len(apps.items) = 3
  /\ store.apps.text = JSONstringify(apps)

\* the records entry holds text that is no JSON, or JSON that is no array
RecordsEntryCorrupt(st) ==
  /\ Truthy(st.apps)
  /\ \/ ~JSONparse(st.apps.text).ok
     \/ ~IsArray(JSONparse(st.apps.text).v)

\* C2: after init() has run on a records entry that is corrupt, the
\* collection is the empty array and init() has returned without throwing.
CorruptionRecovery ==
  (last.op = "init" /\ RecordsEntryCorrupt(store)) =>
    (apps = JArr(<< >>) /\ last.outcome = "returned" /\ pc = "ready")

\* C3: an update whose id no record of the collection has ends with a
\* NotFound outcome, never as a save that returned normally.
UpdateOfMissingIdFails ==
  (last.op = "update" /\ ~last.found) => last.outcome = "NotFound"

NoTwoRecordsShareAnId(items) ==
  \A i, j \in 1..Len(items) : i # j => items[i].id # items[j].id

\* C4: the ids of the records of the collection are pairwise distinct, and
\* the id a create has issued was not the id of a record already there.
IdsUnique ==
  pc = "ready" =>
    /\ NoTwoRecordsShareAnId(apps.items)
    /\ (last.op = "create" => ~last.found)

\* the form contents fail validation, in the words of the claim
FailsValidation(f) ==
  \/ Len(Trim(f.company)) < 2
  \/ Len(Trim(f.role)) < 2
  \/ f.status = EMPTY
  \/ (Trim(f.link) # EMPTY /\ ~URLParses(Trim(f.link)))

\* C5: a run of the submit handler on form contents that fail validation
\* changes neither the collection nor the records entry of the storage,
\* whether the form is in add mode or in edit mode.
InvalidSubmissionChangesNothing ==
  [][\/ (apps' = apps /\ store' = store)
     \/ ~\E f \in FormInputs : FailsValidation(f) /\ SubmitHandler(f)]_vars

\* an invalid submission was made in edit mode on a record of the collection
InvalidSubmissionWitness ==
  /\ last.op = "submit"
  /\ last.outcome = "invalid"
  /\ last.found
  /\ editId # EMPTY
  /\ Len(apps.items) > 0

\* C6: reloading the page leaves the collection in memory as it was before
\* the reload, order and every field included.
ReloadRoundTrip ==
  [][(pc = "ready" /\ Reload) => apps' = apps]_vars

\* the positions of the records of items whose id is not id, in order
KeptPositions(items, id) ==
  LET kept == {j \in 1..Len(items) : items[j].id # id}
  IN  [k \in 1..Cardinality(kept) |->
         CHOOSE j \in kept : Cardinality({m \in kept : m <= j}) = k]

\* C7: an update on an edit id some record has keeps the length of the
\* collection; at every position, a record with that id keeps its id and
\* createdAt and takes company, role, status, date, link and notes from
\* the payload (the form contents, text fields trimmed), and a record with
\* another id is left as it was.
UpdateFrame ==
  [][\A f \in ValidForms :
       (SubmitUpdate(f) /\ Found(apps.items, editId)) =>
         /\ Len(apps'.items) = Len(apps.items)
         /\ \A i \in 1..Len(apps.items) :
              IF apps.items[i].id = editId
                THEN /\ apps'.items[i].id = apps.items[i].id
                     /\ apps'.items[i].createdAt = apps.items[i].createdAt
                     /\ apps'.items[i].company = Trim(f.company)
                     /\ apps'.items[i].role = Trim(f.role)
                     /\ apps'.items[i].status = f.status
                     /\ apps'.items[i].date = f.date
                     /\ apps'.items[i].link = Trim(f.link)
                     /\ apps'.items[i].notes = Trim(f.notes)
                ELSE apps'.items[i] = apps.items[i]]_vars

\* a seeded record has been updated in place, between two records left alone
UpdateFrameWitness ==
  /\ last.op = "update"
  /\ last.found
  /\ Len(apps.items) = 3
  /\ apps.items[2].id = last.id
  /\ apps.items[2].company = <<"A", "c", "m", "e">>
  /\ apps.items[2].createdAt < T0
  /\ apps.items[1].company = CANVA
  /\ apps.items[3].company = SHOPIFY

\* ids no record of the collection has
AbsentIds(items) ==
  {id \in {LEGACY_ID, uid(T0, <<"8">>), EMPTY} : ~Found(items, id)}

\* C8: a confirmed delete click leaves exactly the records whose id is not
\* the clicked one, unchanged and in their order; and deleteApp given an
\* id no record has would leave the collection as it is.
DeleteFrame ==
  [][/\ \A i \in 1..(MaxApps + 3) :
          DeleteClick(i) =>
            LET keep == KeptPositions(apps.items, dom.list[i].id)
            IN  /\ Len(apps'.items) = Len(keep)
                /\ \A k \in 1..Len(keep) :
                     apps'.items[k] = apps.items[keep[k]]
                /\ last'.outcome = "returned"
     /\ \A id \in AbsentIds(apps.items) :
          FilterOut(apps.items, id) = apps.items]_vars

\* the middle one of three records has been deleted
DeleteFrameWitness ==
  /\ last.op = "delete"
  /\ Len(apps.items) = 2
  /\ apps.items[1].company = CANVA
  /\ apps.items[2].company = SHOPIFY
  /\ ~Found(apps.items, last.id)

\* q occurs in hay as a substring, the case of letters set aside
CaseInsensitiveSubstring(q, hay) ==
  \E off \in 0..(Len(hay) - Len(q)) :
    \A k \in 1..Len(q) : ToLowerChar(q[k]) = ToLowerChar(hay[off + k])

IsListed(a) == \E j \in 1..Len(dom.list) : dom.list[j] = a

\* C9 as claimed: with the status filter on "all", a record is listed if
\* and only if the text of the search box, as typed, is a case-insensitive
\* substring of company + " " + role.
QueryFilterAsTyped ==
  (pc = "ready" /\ view.filter = ALL) =>
    \A i \in 1..Len(apps.items) :
      IsListed(apps.items[i]) <=>
        CaseInsensitiveSubstring(view.q,
          apps.items[i].company \o <<" ">> \o apps.items[i].role)

\* C9 as amended: with the status filter on "all", a record is listed if
\* and only if the text of the search box, leading and trailing white
\* space removed, is a case-insensitive substring of company + " " + role;
\* a text that is empty once trimmed lists every record.
QueryFilterTrimmed ==
  (pc = "ready" /\ view.filter = ALL) =>
    /\ \A i \in 1..Len(apps.items) :
         IsListed(apps.items[i]) <=>
           CaseInsensitiveSubstring(Trim(view.q),
             apps.items[i].company \o <<" ">> \o apps.items[i].role)
    /\ (Trim(view.q) = EMPTY =>
          \A i \in 1..Len(apps.items) : IsListed(apps.items[i]))

\* a query typed with a leading space and in another case lists one record
\* and hides another
QueryFilterWitness ==
  /\ view.q = <<" ", "E", " ", "d">>
  /\ view.filter = ALL
  /\ Len(dom.list) = 1
  /\ Len(apps.items) = 2
  /\ dom.list[1].company = <<"A", "c", "m", "e">>

\* the number of records of items whose status is status
RECURSIVE Tally(_, _)
Tally(items, status) ==
  IF items = << >> THEN 0
  ELSE (IF Head(items).status = status THEN 1 ELSE 0)
       + Tally(Tail(items), status)

\* C10: the displayed total is the number of records, each of the applied,
\* interview and offer counters is the number of records with that status,
\* and their sum is at most the total, equal to it exactly when no record
\* has a status other than these three; whatever the list controls say.
AggregatesCorrect ==
  pc = "ready" =>
    LET c == dom.stats
    IN  /\ c.total = Len(apps.items)
        /\ c.applied = Tally(apps.items, APPLIED)
        /\ c.interview = Tally(apps.items, INTERVIEW)
        /\ c.offer = Tally(apps.items, OFFER)
        /\ c.applied + c.interview + c.offer <= c.total
        /\ (c.applied + c.interview + c.offer = c.total) <=>
             (\A i \in 1..Len(apps.items) :
                apps.items[i].status \in {APPLIED, INTERVIEW, OFFER})

\* a rejected record and one with an unknown status are counted in the
\* total only, while the list shows a filtered view
AggregatesWitness ==
  /\ pc = "ready"
  /\ view.filter = OFFER
  /\ view.sort = "company"
  /\ \E i \in 1..Len(apps.items) : apps.items[i].status = REJECTED
  /\ \E i \in 1..Len(apps.items) : apps.items[i].status = GHOSTED
  /\ dom.stats.total = 2
  /\ dom.stats.applied + dom.stats.interview + dom.stats.offer = 0

\* the results line of a collection of total records of which shown are
\* listed
SummaryOf(shown, total) ==
  [form |-> IF shown = total THEN "items" ELSE "shown of",
   shown |-> shown, total |-> total]

\* C11: whatever handler ran last, the list shown is the projection of the
\* collection under the values the list controls hold, the results line
\* gives the number of records listed and the number of records, the
\* counters are the aggregates of the collection, and the results line and
\* the empty-state marks of an empty view over records differ from those of
\* an empty collection.
ViewSynchronized ==
  pc = "ready" =>
    /\ dom.list = getFilteredApps(apps.items, view)
    /\ dom.meta = SummaryOf(Len(dom.list), Len(apps.items))
    /\ dom.stats = [total     |-> Len(apps.items),
                    applied   |-> Tally(apps.items, APPLIED),
                    interview |-> Tally(apps.items, INTERVIEW),
                    offer     |-> Tally(apps.items, OFFER)]
    /\ dom.empty = (apps.items = << >>)
    /\ dom.noMatches = (apps.items # << >> /\ dom.list = << >>)
    /\ (apps.items # << >> /\ dom.list = << >>) =>
         /\ dom.meta # SummaryOf(0, 0)
         /\ ~dom.empty

\* a delete under a status filter has left records of which none is listed
ViewSynchronizedWitness ==
  /\ last.op = "delete"
  /\ view.filter = OFFER
  /\ view.q # EMPTY
  /\ Len(apps.items) = 2
  /\ dom.list = << >>
  /\ dom.noMatches
  /\ dom.meta = [form |-> "shown of", shown |-> 0, total |-> 2]

Reverse(s) == [i \in 1..Len(s) |-> s[Len(s) + 1 - i]]

CreatedAtDistinct(items) ==
  \A i, j \in 1..Len(items) :
    i # j => items[i].createdAt # items[j].createdAt

\* the list controls set to the query q, the status filter s, the sort m
ViewOf(q, s, m) == [q |-> q, filter |-> s, sort |-> m]

\* C12: whatever the search box and the status filter hold, projecting the
\* collection and sorting the outcome again by the same mode gives the same
\* order, under each of the four modes; and when the createdAt values of
\* the collection are pairwise distinct, the order under "oldest" is the
\* order under "newest" reversed.
SortDeterminismAndReversal ==
  pc = "ready" =>
    /\ \A m \in SortModes :
         SortApps(m, getFilteredApps(apps.items,
                                     ViewOf(view.q, view.filter, m)))
           = getFilteredApps(apps.items, ViewOf(view.q, view.filter, m))
    /\ CreatedAtDistinct(apps.items) =>
         getFilteredApps(apps.items, ViewOf(view.q, view.filter, "oldest"))
           = Reverse(getFilteredApps(apps.items,
                                     ViewOf(view.q, view.filter, "newest")))

\* three records created at different times are listed oldest first
SortReversalWitness ==
  /\ pc = "ready"
  /\ view.sort = "oldest"
  /\ view.filter = ALL
  /\ Len(apps.items) = 3
  /\ CreatedAtDistinct(apps.items)
  /\ Len(dom.list) = 3
  /\ dom.list[1].createdAt < dom.list[2].createdAt
  /\ dom.list[2].createdAt < dom.list[3].createdAt
  /\ dom.list = Reverse(apps.items)

\* C13: whenever the form is in edit mode, the edit id is the id of a
\* record of the collection.
EditTargetValid ==
  (pc = "ready" /\ editId # EMPTY) => Found(apps.items, editId)

\* what loading makes of the records entry of st when no preferences entry
\* is stored, and of its preferences entry when no records entry is stored
RecordsAlone(st) == loadState([apps |-> st.apps, prefs |-> Absent]).apps

PrefsAlone(st) == loadState([apps |-> Absent, prefs |-> st.prefs]).prefs

\* C14: after init() has run, the collection is what the records entry
\* alone loads as and the preferences are what the preferences entry alone
\* loads as.
IndependentRecovery ==
  last.op = "init" =>
    /\ apps = RecordsAlone(store)
    /\ prefs = PrefsAlone(store)

====
